---- MODULE Spec2Model ----
(***************************************************************************)
(* The dtrace stack collapser (src/src/collapse/dtrace.rs): the per-line   *)
(* parser, the stack assembler, the chunking orchestrator with its worker  *)
(* pool and the three channels, and the calls of collapse on one Folder.   *)
(*                                                                         *)
(* Text is kept as Rust keeps it: a str or a Vec<u8> is a sequence of      *)
(* bytes (0..255); a line is the bytes before its '\n'.                    *)
(***************************************************************************)
EXTENDS Integers, Sequences, FiniteSets, TLC

(***************************************************************************)
(* Bounds of the model.                                                    *)
(***************************************************************************)
\* longest input body (lines after the preamble's blank line)
MaxLen == 4
\* largest worker count (opt.nthreads)
MaxThreads == 2
\* largest nstacks_per_job
MaxNpj == 2
\* longest input body of a call in the specification of repeated calls
MaxReuseLen == 2
\* most calls of collapse on one Folder in the specification of repeated calls
MaxCalls == 3
\* lines of an input in the runs under fair scheduling
MaxFairLen == 3
\* lines after the preamble of a call that is read line by line
MaxLines == 5
\* pieces of a line given to is_end_of_stack
MaxPieces == 3
\* lines of a sample given to is_applicable
MaxSample == 4
\* the number of threads of the calls in which workers are stopped
MaxStopThreads == 3
\* the most chunks of one trace in the body of those calls
MaxStopChunks == 2

(***************************************************************************)
(* Bytes and characters.                                                   *)
(***************************************************************************)
NL == 10

\* b as char, char::is_whitespace, for a char below U+0100
IsWhitespaceByte(b) == b \in {9, 10, 11, 12, 13, 32, 133, 160}

IsAsciiDigit(b) == b >= 48 /\ b <= 57

IsCont(b) == b >= 128 /\ b <= 191

\* the length of the UTF-8 sequence that starts at s[i], 0 when there is none
Utf8SeqLen(s, i) ==
  LET n == Len(s)
      b0 == s[i]
      at(k) == IF i + k <= n THEN s[i + k] ELSE 0
  IN  IF b0 < 128 THEN 1
      ELSE IF b0 >= 194 /\ b0 <= 223
        THEN IF IsCont(at(1)) THEN 2 ELSE 0
      ELSE IF b0 >= 224 /\ b0 <= 239
        THEN IF /\ IsCont(at(1)) /\ IsCont(at(2))
                /\ (b0 = 224 => at(1) >= 160)
                /\ (b0 = 237 => at(1) <= 159)
             THEN 3 ELSE 0
      ELSE IF b0 >= 240 /\ b0 <= 244
        THEN IF /\ IsCont(at(1)) /\ IsCont(at(2)) /\ IsCont(at(3))
                /\ (b0 = 240 => at(1) >= 144)
                /\ (b0 = 244 => at(1) <= 143)
             THEN 4 ELSE 0
      ELSE 0

RECURSIVE Utf8From(_, _)
Utf8From(s, i) ==
  IF i > Len(s) THEN TRUE
  ELSE LET k == Utf8SeqLen(s, i)
       IN  IF k = 0 THEN FALSE ELSE Utf8From(s, i + k)

\* what read_line checks of the bytes it appends
IsUtf8(s) == Utf8From(s, 1)

\* the UTF-8 encodings of the chars with the White_Space property
WhitespaceChars ==
  {<<9>>, <<10>>, <<11>>, <<12>>, <<13>>, <<32>>, <<194, 133>>, <<194, 160>>,
   <<225, 154, 128>>, <<226, 128, 168>>, <<226, 128, 169>>, <<226, 128, 175>>,
   <<226, 129, 159>>, <<227, 128, 128>>}
  \cup {<<226, 128, b>> : b \in 128..138}

\* the length of the White_Space char s starts with (ends with), 0 for none
LeadingWs(s) ==
  IF s = <<>> THEN 0
  ELSE IF s[1] < 128 THEN (IF <<s[1]>> \in WhitespaceChars THEN 1 ELSE 0)
  ELSE IF Len(s) >= 2 /\ SubSeq(s, 1, 2) \in WhitespaceChars THEN 2
  ELSE IF Len(s) >= 3 /\ SubSeq(s, 1, 3) \in WhitespaceChars THEN 3
  ELSE 0

TrailingWs(s) ==
  LET n == Len(s)
  IN  IF s = <<>> THEN 0
      ELSE IF s[n] < 128 THEN (IF <<s[n]>> \in WhitespaceChars THEN 1 ELSE 0)
      ELSE IF n >= 2 /\ SubSeq(s, n - 1, n) \in WhitespaceChars THEN 2
      ELSE IF n >= 3 /\ SubSeq(s, n - 2, n) \in WhitespaceChars THEN 3
      ELSE 0

RECURSIVE TrimStart(_)
TrimStart(s) ==
  IF LeadingWs(s) = 0 THEN s
  ELSE TrimStart(SubSeq(s, LeadingWs(s) + 1, Len(s)))

RECURSIVE TrimEnd(_)
TrimEnd(s) ==
  IF TrailingWs(s) = 0 THEN s
  ELSE TrimEnd(SubSeq(s, 1, Len(s) - TrailingWs(s)))

\* str::trim of a valid UTF-8 text
Trim(s) == TrimEnd(TrimStart(s))

(***************************************************************************)
(* str::parse::<usize>, usize of 64 bits.                                  *)
(***************************************************************************)
\* the decimal digits of usize::MAX, 18446744073709551615
UsizeMaxDigits ==
  <<1, 8, 4, 4, 6, 7, 4, 4, 0, 7, 3, 7, 0, 9, 5, 5, 1, 6, 1, 5>>

RECURSIVE StripZeros(_)
StripZeros(d) == IF d # <<>> /\ d[1] = 0 THEN StripZeros(Tail(d)) ELSE d

\* d <= e for two digit sequences of the same length
RECURSIVE DigitsLeq(_, _)
DigitsLeq(d, e) ==
  IF d = <<>> THEN TRUE
  ELSE IF d[1] < e[1] THEN TRUE
  ELSE IF d[1] > e[1] THEN FALSE
  ELSE DigitsLeq(Tail(d), Tail(e))

FitsUsize(d) ==
  LET z == StripZeros(d)
  IN  \/ Len(z) < Len(UsizeMaxDigits)
      \/ Len(z) = Len(UsizeMaxDigits) /\ DigitsLeq(z, UsizeMaxDigits)

RECURSIVE DigitsValue(_)
DigitsValue(d) ==
  IF d = <<>> THEN 0 ELSE 10 * DigitsValue(SubSeq(d, 1, Len(d) - 1)) + d[Len(d)]

\* s.parse::<usize>(): [ok, val]; an optional '+', then digits only, no overflow
ParseUsize(s) ==
  LET body == IF s # <<>> /\ s[1] = 43 THEN Tail(s) ELSE s
      digits == [i \in 1..Len(body) |-> body[i] - 48]
  IN  IF /\ body # <<>>
         /\ \A i \in 1..Len(body) : IsAsciiDigit(body[i])
         /\ FitsUsize(digits)
      THEN [ok |-> TRUE, val |-> DigitsValue(StripZeros(digits))]
      ELSE [ok |-> FALSE, val |-> 0]

(***************************************************************************)
(* is_applicable: the format sniffer. A sample is the sequence of its      *)
(* lines; the answer is "None", "Some(true)" or "Some(false)".             *)
(***************************************************************************)
\* the only element of a set of one element
The(S) == CHOOSE x \in S : TRUE

IsHexDigit(b) == IsAsciiDigit(b) \/ b \in 65..70 \/ b \in 97..102

RECURSIVE StripZeroBytes(_)
StripZeroBytes(s) ==
  IF s # <<>> /\ s[1] = 48 THEN StripZeroBytes(Tail(s)) ELSE s

\* usize::from_str_radix(s, 16).is_ok(): an optional '+', then hexadecimal
\* digits, one or more, of a value below 2^64
FromStrRadix16Ok(s) ==
  LET body == IF s # <<>> /\ s[1] = 43 THEN Tail(s) ELSE s
  IN  /\ body # <<>>
      /\ \A i \in 1..Len(body) : IsHexDigit(body[i])
      /\ Len(StripZeroBytes(body)) <= 16

\* is_applicable with found_empty_line taken as set from the start
RECURSIVE IsApplicableFromBlank(_, _, _)
IsApplicableFromBlank(lines, found_empty_line, found_stack_line) ==
  IF lines = <<>> THEN "None"
  ELSE IF ~IsUtf8(Head(lines) \o <<NL>>) THEN "Some(false)"
  ELSE The({
    IF line = <<>>
    THEN IsApplicableFromBlank(Tail(lines), TRUE, found_stack_line)
    ELSE IF ParseUsize(line).ok
    THEN IF found_stack_line THEN "Some(true)" ELSE "Some(false)"
    ELSE IF \/ \E i \in 1..Len(line) : line[i] = 96
            \/ /\ Len(line) >= 2 /\ line[1] = 48 /\ line[2] = 120
               /\ FromStrRadix16Ok(SubSeq(line, 3, Len(line)))
    THEN IsApplicableFromBlank(Tail(lines), TRUE, TRUE)
    ELSE "Some(false)"
    : line \in {Trim(Head(lines) \o <<NL>>)}})

\* the loop of is_applicable from the flags found_empty_line, found_stack_line
RECURSIVE IsApplicableFrom(_, _, _)
IsApplicableFrom(lines, found_empty_line, found_stack_line) ==
  IF lines = <<>> THEN "None"
  ELSE IF ~IsUtf8(Head(lines) \o <<NL>>) THEN "Some(false)"
  ELSE The({
    IF line = <<>>
    THEN IsApplicableFrom(Tail(lines), TRUE, found_stack_line)
    ELSE IF found_empty_line
    THEN IF ParseUsize(line).ok
         THEN IF found_stack_line THEN "Some(true)" ELSE "Some(false)"
         ELSE IF \/ \E i \in 1..Len(line) : line[i] = 96
                 \/ /\ Len(line) >= 2 /\ line[1] = 48 /\ line[2] = 120
                    /\ FromStrRadix16Ok(SubSeq(line, 3, Len(line)))
         THEN IsApplicableFrom(Tail(lines), TRUE, TRUE)
         ELSE "Some(false)"
    ELSE IsApplicableFrom(Tail(lines), found_empty_line, found_stack_line)
    : line \in {Trim(Head(lines) \o <<NL>>)}})

is_applicable(sample) == IsApplicableFrom(sample, FALSE, FALSE)

(***************************************************************************)
(* is_end_of_stack: the byte scanner the orchestrator cuts chunks with.    *)
(***************************************************************************)
\* one byte of the scan: the next State, or "reject"
EosStep(state, b) ==
  IF state = "StartOfLine" THEN
       IF IsWhitespaceByte(b) THEN "StartOfLine"
       ELSE IF IsAsciiDigit(b) THEN "MiddleOfLine"
       ELSE "reject"
  ELSE IF state = "MiddleOfLine" THEN
       IF IsAsciiDigit(b) THEN "MiddleOfLine"
       ELSE IF IsWhitespaceByte(b) THEN "EndOfLine"
       ELSE "reject"
  ELSE IF state = "EndOfLine" THEN
       IF IsWhitespaceByte(b) THEN "EndOfLine" ELSE "reject"
  ELSE "reject"

RECURSIVE EosScan(_, _, _)
EosScan(line, i, state) ==
  IF state = "reject" THEN FALSE
  ELSE IF i > Len(line) THEN TRUE
  ELSE EosScan(line, i + 1, EosStep(state, line[i]))

\* line: the bytes read_until returned, the '\n' included
is_end_of_stack(line) == EosScan(line, 1, "StartOfLine")

(***************************************************************************)
(* Frame transformer.                                                      *)
(***************************************************************************)
\* positions, searches and replacements in a byte text (1-based)
Max(S) == CHOOSE x \in S : \A y \in S : y <= x

Min(S) == CHOOSE x \in S : \A y \in S : x <= y

\* str::replace of the one byte a by the one byte b
ReplaceByte(s, a, b) == [i \in 1..Len(s) |-> IF s[i] = a THEN b ELSE s[i]]

RECURSIVE TrimStartMatches(_, _)
TrimStartMatches(s, c) ==
  IF s # <<>> /\ s[1] = c THEN TrimStartMatches(Tail(s), c) ELSE s

\* str::split("->"): the pieces between the non-overlapping matches, left to right
RECURSIVE SplitArrow(_, _)
SplitArrow(s, acc) ==
  IF s = <<>> THEN <<acc>>
  ELSE IF Len(s) >= 2 /\ s[1] = 45 /\ s[2] = 62
    THEN <<acc>> \o SplitArrow(SubSeq(s, 3, Len(s)), <<>>)
  ELSE SplitArrow(Tail(s), Append(acc, s[1]))

AtArrowEnd(s, i) == i > 1 /\ s[i] = 62 /\ s[i - 1] = 45

AtScopeEnd(s, i) == i > 1 /\ s[i] = 58 /\ s[i - 1] = 58

AtSemicolon(s, i) == s[i] = 59

AtPlus(s, i) == s[i] = 43

remove_offset(line) ==
  LET plus == {i \in 1..Len(line) : AtPlus(line, i)}
      last_offset == IF plus = {} THEN Len(line) ELSE Max(plus) - 1
  IN  [has_inlines   |-> {i \in 1..Len(line) : AtArrowEnd(line, i)} # {},
       could_be_cpp  |-> {i \in 1..Len(line) : AtScopeEnd(line, i)} # {},
       has_semicolon |-> {i \in 1..Len(line) : AtSemicolon(line, i)} # {},
       frame         |-> SubSeq(line, 1, last_offset)]

AtScope(s, i) == i < Len(s) /\ s[i] = 58 /\ s[i + 1] = 58

AtOpen(s, i) == s[i] = 40 \/ s[i] = 60

\* uncpp that cuts at the first '(' or '<' after the first "::"
uncpp_first(probe) ==
  LET scopes == {i \in 1..Len(probe) : AtScope(probe, i)}
  IN  IF scopes = {} THEN probe
      ELSE LET scope == Min(scopes)
               opens == {i \in 1..Len(probe) : AtOpen(probe, i) /\ i >= scope + 2}
           IN  IF opens = {} THEN probe ELSE SubSeq(probe, 1, Min(opens) - 1)

uncpp(probe) ==
  LET scopes == {i \in 1..Len(probe) : AtScope(probe, i)}
  IN  IF scopes = {} THEN probe
      ELSE LET scope == Min(scopes)
               opens == {i \in 1..Len(probe) : AtOpen(probe, i) /\ i >= scope + 2}
           IN  IF opens = {} THEN probe ELSE SubSeq(probe, 1, Max(opens) - 1)

\* symbolic_demangle::demangle and fix_partially_demangled_rust_symbol: the
\* text is returned borrowed (unchanged) when it is no recognised mangled form;
\* no text of the model is one
demangle_fn(func) == [owned |-> FALSE, text |-> func]

fix_partially_demangled_rust_symbol(func) == [owned |-> FALSE, text |-> func]

AtTick(s, i) == s[i] = 96

\* transform(func), for the function the caller passes by name
ApplyTransform(transform, func) ==
  IF transform = "demangle" THEN demangle_fn(func)
  ELSE fix_partially_demangled_rust_symbol(func)

transform_function_name(frame, includeoffset, transform) ==
  LET ticks == {i \in 1..Len(frame) : AtTick(frame, i)}
  IN  IF ticks = {} THEN frame
      ELSE
        LET t == Min(ticks)
            pname == SubSeq(frame, 1, t - 1)
            func == SubSeq(frame, t + 1, Len(frame))
            plus == {i \in 1..Len(func) : AtPlus(func, i)}
            plain == ApplyTransform(transform, TrimEnd(func))
        IN  IF includeoffset /\ plus # {}
            THEN LET p == Max(plus)
                     offset == SubSeq(func, p + 1, Len(func))
                     r == ApplyTransform(transform, TrimEnd(SubSeq(func, 1, p - 1)))
                 IN  IF r.owned
                     THEN pname \o <<96>> \o r.text \o <<43>> \o offset
                     ELSE frame
            ELSE IF plain.owned THEN pname \o <<96>> \o plain.text
            ELSE frame

demangle(frame, includeoffset) ==
  transform_function_name(frame, includeoffset, "demangle")

fix_rust_symbol(frame, includeoffset) ==
  transform_function_name(frame, includeoffset, "fix")

(***************************************************************************)
(* Stack assembler. A Folder's parser state is [stack, stack_str_size];    *)
(* stack[1] is the front of the VecDeque. cache_inlines is empty between   *)
(* two calls of on_stack_line.                                             *)
(***************************************************************************)
NewParser == [stack |-> <<>>, stack_str_size |-> 0]

\* the "_[i]" tag
InlineTag == <<95, 91, 105, 93>>

\* InlineFuncs that gives the names in the order they are popped
InlineFuncsPopOrder(frame, has_semicolon) ==
  LET parts == SplitArrow(frame, <<>>)
      n == Len(parts)
  IN  [k \in 1..n |->
         LET f0 == TrimStartMatches(parts[n + 1 - k], 76)
             f1 == IF has_semicolon THEN ReplaceByte(f0, 59, 58) ELSE f0
         IN  IF n + 1 - k > 1 THEN f1 \o InlineTag ELSE f1]

\* the names pushed to cache_inlines for one frame, in push order
InlineFuncs(frame, has_semicolon) ==
  LET parts == SplitArrow(frame, <<>>)
  IN  [k \in 1..Len(parts) |->
         LET f0 == TrimStartMatches(parts[k], 76)
             f1 == IF has_semicolon THEN ReplaceByte(f0, 59, 58) ELSE f0
         IN  IF k > 1 THEN f1 \o InlineTag ELSE f1]

RECURSIVE SumLenPlusOne(_)
SumLenPlusOne(fs) ==
  IF fs = <<>> THEN 0 ELSE Len(Head(fs)) + 1 + SumLenPlusOne(Tail(fs))

\* on_stack_line that puts the frames at the back of the stack
on_stack_line_back(p, line, opt) ==
  LET ro == IF opt.includeoffset
            THEN [has_inlines |-> TRUE, could_be_cpp |-> TRUE,
                  has_semicolon |-> TRUE, frame |-> line]
            ELSE remove_offset(line)
      f1 == IF ro.could_be_cpp THEN uncpp(ro.frame) ELSE ro.frame
      frame == IF f1 = <<>> THEN <<45>>
               ELSE IF opt.demangle THEN demangle(f1, opt.includeoffset)
               ELSE fix_rust_symbol(f1, opt.includeoffset)
  IN  IF ro.has_inlines
      THEN LET funcs == InlineFuncs(frame, ro.has_semicolon)
           IN  [stack |-> p.stack \o funcs,
                stack_str_size |-> p.stack_str_size + SumLenPlusOne(funcs)]
      ELSE IF ro.has_semicolon
      THEN [p EXCEPT !.stack = p.stack \o <<ReplaceByte(frame, 59, 58)>>]
      ELSE [p EXCEPT !.stack = p.stack \o <<frame>>]

on_stack_line(p, line, opt) ==
  LET ro == IF opt.includeoffset
            THEN [has_inlines |-> TRUE, could_be_cpp |-> TRUE,
                  has_semicolon |-> TRUE, frame |-> line]
            ELSE remove_offset(line)
      f1 == IF ro.could_be_cpp THEN uncpp(ro.frame) ELSE ro.frame
      frame == IF f1 = <<>> THEN <<45>>
               ELSE IF opt.demangle THEN demangle(f1, opt.includeoffset)
               ELSE fix_rust_symbol(f1, opt.includeoffset)
  IN  IF ro.has_inlines
      THEN LET funcs == InlineFuncs(frame, ro.has_semicolon)
           IN  [stack |-> funcs \o p.stack,
                stack_str_size |-> p.stack_str_size + SumLenPlusOne(funcs)]
      ELSE IF ro.has_semicolon
      THEN [p EXCEPT !.stack = <<ReplaceByte(frame, 59, 58)>> \o p.stack]
      ELSE [p EXCEPT !.stack = <<frame>> \o p.stack]

RECURSIVE JoinFrames(_)
JoinFrames(fs) ==
  IF fs = <<>> THEN <<>>
  ELSE IF Len(fs) = 1 THEN fs[1]
  ELSE fs[1] \o <<59>> \o JoinFrames(Tail(fs))

\* the folded stack on_stack_end builds; the leaf is the back of the stack
stack_str(p, opt) ==
  LET n == Len(p.stack)
  IN  JoinFrames([i \in 1..n |->
        IF opt.includeoffset /\ i = n
        THEN remove_offset(p.stack[i]).frame ELSE p.stack[i]])

\* on_stack_end that leaves the frames in the stack
on_stack_end_keep(p, opt, overflow_checks) ==
  IF p.stack = <<>> /\ overflow_checks
  THEN [panic |-> TRUE, parser |-> p, key |-> <<>>]
  ELSE [panic |-> FALSE, parser |-> p, key |-> stack_str(p, opt)]

\* on_stack_end: [panic, parser, key]. stack.len() - 1 underflows on an empty
\* stack: a panic where overflow is checked, a wrap (and the key "") otherwise
on_stack_end(p, opt, overflow_checks) ==
  IF p.stack = <<>> /\ overflow_checks
  THEN [panic |-> TRUE, parser |-> p, key |-> <<>>]
  ELSE [panic |-> FALSE, parser |-> NewParser, key |-> stack_str(p, opt)]

(***************************************************************************)
(* collapse_single_threaded over a sequence of lines (each ended by '\n'). *)
(* It returns [result, parser, adds]: adds are the calls of                *)
(* occurrences.add it made, in order, as <<key, count>>. Values that are   *)
(* used more than once are bound once, as the element of a singleton.      *)
(***************************************************************************)
\* one line that is neither blank nor invalid: [result, parser, adds], result
\* "ok" to go on, "panic" to stop
ParseLine(p, line, adds, opt, overflow_checks) ==
  LET count == ParseUsize(line)
  IN  IF count.ok
      THEN LET e == on_stack_end(p, opt, overflow_checks)
           IN  IF e.panic
               THEN [result |-> "panic", parser |-> p, adds |-> adds]
               ELSE [result |-> "ok", parser |-> e.parser,
                     adds |-> Append(adds, <<e.key, count.val>>)]
      ELSE [result |-> "ok", parser |-> on_stack_line(p, line, opt),
            adds |-> adds]

\* the read loop from the state st = [result, parser, adds] on
RECURSIVE ParseLines(_, _, _, _)
ParseLines(st, lines, opt, overflow_checks) ==
  IF lines = <<>>
  THEN [st EXCEPT !.result =
          IF st.parser.stack # <<>> \/ st.parser.stack_str_size # 0
          THEN "truncated" ELSE "ok"]
  ELSE
    LET raw == Head(lines) \o <<NL>>
    IN  IF ~IsUtf8(raw) THEN [st EXCEPT !.result = "utf8"]
        ELSE The({
          IF line = <<>> THEN ParseLines(st, Tail(lines), opt, overflow_checks)
          ELSE The({
            IF next.result = "panic" THEN next
            ELSE ParseLines(next, Tail(lines), opt, overflow_checks)
            : next \in {ParseLine(st.parser, line, st.adds, opt, overflow_checks)}})
          : line \in {Trim(raw)}})

collapse_single_threaded(p, lines, opt, overflow_checks) ==
  The({ParseLines(st, ls, opt, overflow_checks) :
         st \in {[result |-> "ok", parser |-> p, adds |-> <<>>]}, ls \in {lines}})

(***************************************************************************)
(* Occurrences: a map from folded stack to count.                          *)
(***************************************************************************)
EmptyOccurrences == << >>

\* occurrences.add(key, count)
OccAdd(occ, key, count) ==
  IF key \in DOMAIN occ
  THEN [occ EXCEPT ![key] = @ + count]
  ELSE [k \in DOMAIN occ \cup {key} |-> IF k = key THEN count ELSE occ[k]]

RECURSIVE OccAddAll(_, _)
OccAddAll(occ, adds) ==
  IF adds = <<>> THEN occ
  ELSE OccAddAll(OccAdd(occ, Head(adds)[1], Head(adds)[2]), Tail(adds))

\* the lines write_and_clear writes, one <<stack, count>> for each key
OccLines(occ) == {<<k, occ[k]>> : k \in DOMAIN occ}

(***************************************************************************)
(* The preamble: collapse skips lines up to the first blank one.           *)
(* [outcome, body]: "eof" (no blank line), "utf8" (read_line failed) or    *)
(* "body" with the lines after the blank one.                              *)
(***************************************************************************)
\* SkipHeader that goes on to the body when the stream ends in the preamble
RECURSIVE SkipHeaderEofBody(_)
SkipHeaderEofBody(lines) ==
  IF lines = <<>> THEN [outcome |-> "body", body |-> <<>>]
  ELSE LET raw == Head(lines) \o <<NL>>
       IN  IF ~IsUtf8(raw) THEN [outcome |-> "utf8", body |-> <<>>]
           ELSE IF Trim(raw) = <<>> THEN [outcome |-> "body", body |-> Tail(lines)]
           ELSE SkipHeaderEofBody(Tail(lines))

RECURSIVE SkipHeader(_)
SkipHeader(lines) ==
  IF lines = <<>> THEN [outcome |-> "eof", body |-> <<>>]
  ELSE LET raw == Head(lines) \o <<NL>>
       IN  IF ~IsUtf8(raw) THEN [outcome |-> "utf8", body |-> <<>>]
           ELSE IF Trim(raw) = <<>> THEN [outcome |-> "body", body |-> Tail(lines)]
           ELSE SkipHeader(Tail(lines))

(***************************************************************************)
(* The orchestrator's chunking loop from one send to the next:             *)
(* [chunk, rest, eof]. eof: read_until returned 0 before nstacks reached   *)
(* nstacks_per_job, and chunk is the last slice.                           *)
(***************************************************************************)
\* ReadChunk with a buffer that keeps only the line read last
RECURSIVE ReadChunkLastLine(_, _, _, _)
ReadChunkLastLine(rest, buf, nstacks, nstacks_per_job) ==
  IF rest = <<>> THEN [chunk |-> buf, rest |-> rest, eof |-> TRUE]
  ELSE The({
    IF eos /\ n2 = nstacks_per_job
    THEN [chunk |-> buf2, rest |-> Tail(rest), eof |-> FALSE]
    ELSE ReadChunkLastLine(Tail(rest), buf2, n2, nstacks_per_job)
    : eos \in {is_end_of_stack(Head(rest) \o <<NL>>)},
      buf2 \in {<<Head(rest)>>},
      n2 \in {IF is_end_of_stack(Head(rest) \o <<NL>>)
               THEN nstacks + 1 ELSE nstacks}})

RECURSIVE ReadChunk(_, _, _, _)
ReadChunk(rest, buf, nstacks, nstacks_per_job) ==
  IF rest = <<>> THEN [chunk |-> buf, rest |-> rest, eof |-> TRUE]
  ELSE The({
    IF eos /\ n2 = nstacks_per_job
    THEN [chunk |-> buf2, rest |-> Tail(rest), eof |-> FALSE]
    ELSE ReadChunk(Tail(rest), buf2, n2, nstacks_per_job)
    : eos \in {is_end_of_stack(Head(rest) \o <<NL>>)},
      buf2 \in {Append(buf, Head(rest))},
      n2 \in {IF is_end_of_stack(Head(rest) \o <<NL>>)
               THEN nstacks + 1 ELSE nstacks}})

(***************************************************************************)
(* Input lines of the model.                                               *)
(***************************************************************************)
\* ""
LBlank == <<>>
\* "a", a frame line
LFrame == <<97>>
\* "1", a count line
LCount == <<49>>
\* "a" and the byte 0xF0: a frame line that is not valid UTF-8
LBadUtf8 == <<97, 240>>
\* "2", a count line
LCount2 == <<50>>
\* "m`f+1" and "m`g+2": module, function and offset
LFrameF == <<109, 96, 102, 43, 49>>
LFrameG == <<109, 96, 103, 43, 50>>
\* "Lm`f+1": a module name that starts with 'L'
LFrameL == <<76, 109, 96, 102, 43, 49>>
\* "m`a->b->c": a chain of inlined functions
LInline == <<109, 96, 97, 45, 62, 98, 45, 62, 99>>

Alphabet == {LBlank, LFrame, LCount, LBadUtf8}

SeqsUpTo(S, n) == UNION {[1..k -> S] : k \in 0..n}

RECURSIVE Concat(_)
Concat(pieces) ==
  IF pieces = <<>> THEN <<>> ELSE Head(pieces) \o Concat(Tail(pieces))

\* a blank line and a body; a header line, a blank line and a short body;
\* and inputs with no blank line at all
InputsOver(A, n) ==
  {<<LBlank>> \o b : b \in SeqsUpTo(A, n)}
    \cup {<<h, LBlank>> \o b : h \in A \ {LBlank}, b \in SeqsUpTo(A, 1)}
    \cup SeqsUpTo(A \ {LBlank}, 1)

Inputs == InputsOver(Alphabet, MaxLen)

ReuseInputs == InputsOver(Alphabet, MaxReuseLen)

FairInputs == InputsOver(Alphabet, MaxFairLen)

\* " ", "m`f", "0x1f", "0x", "0x+1f", and "0x1" with sixteen zeros (2^64)
LSpace == <<32>>
LTick == <<109, 96, 102>>
LHex == <<48, 120, 49, 102>>
LHexNone == <<48, 120>>
LHexPlus == <<48, 120, 43, 49, 102>>
LHexBig == <<48, 120, 49, 48, 48, 48, 48, 48, 48, 48, 48, 48, 48, 48, 48, 48,
             48, 48, 48>>

\* the lines of the samples given to is_applicable
SampleAlphabet ==
  {LBlank, LSpace, LCount, LFrame, LTick, LHex, LHexNone, LHexPlus, LHexBig}

\* the lines of the calls that are read line by line
LineAlphabet ==
  {LBlank, LCount, LCount2, LFrameF, LFrameG, LFrameL, LInline, LBadUtf8}

(***************************************************************************)
(* State.                                                                  *)
(***************************************************************************)
VARIABLES
  opt,              \* Folder.opt: [demangle, includeoffset, nthreads]
  nstacks_per_job,  \* Folder.nstacks_per_job
  parser,           \* Folder.stack and Folder.stack_str_size
  occurrences,      \* Folder.occurrences, shared with the workers
  pending,          \* how many calls of collapse the caller still makes
  input,            \* the input of the current (or last) call
  pc,               \* where the caller's thread is
  result,           \* how the last call ended: "ok", "utf8", "truncated", "panic"
  prev_result,      \* how the call before it ended
  written,          \* the lines the writer of the current call has received
  rest,             \* the lines the reader has not returned yet
  buf,              \* the chunk being sent
  nones,            \* None messages sent so far
  tx_input,         \* the work queue, capacity 2 * nthreads
  stop,             \* messages in the stop channel, capacity nthreads - 1
  rx_output,        \* the error channel, capacity 1
  maybe_error,      \* what rx_output.iter().find(..) returned
  workers,          \* worker thread -> [pc, data, parser, k, err]
  sent,             \* history: the chunks sent, [chunk, last]
  first_err,        \* history: the first error placed in the error channel
  drained,          \* history: write_and_clear has run in this call
  added,            \* history: the calls of occurrences.add of the current
                    \* call, in order, as <<key, count>>
  text,             \* the argument given to a function that is applied alone
  answer,           \* [fn, val]: the function applied to text and what it returned
  received          \* history: the messages the workers took from the work
                    \* queue in the current call, in order, as [w, msg]

vars == <<opt, nstacks_per_job, parser, occurrences, pending, input, pc, result,
          prev_result, written, rest, buf, nones, tx_input, stop, rx_output,
          maybe_error, workers, sent, first_err, drained, added, text, answer,
          received>>

folder_vars == <<opt, nstacks_per_job>>

\* what the calls of collapse as a whole and their threads leave alone
probe_vars == <<added, text, answer, received>>

chan_vars == <<tx_input, stop, rx_output>>

main_vars == <<rest, buf, nones, maybe_error>>

Threads == 1..opt.nthreads

\* Occurrences::new(nthreads).is_concurrent()
is_concurrent == opt.nthreads > 1

Exited(w) == workers[w].pc \in {"done", "panicked"}

\* AllExited that one exited worker satisfies
SomeExited == \E w \in DOMAIN workers : Exited(w)

\* every worker thread has returned (or panicked): its channel ends are
\* dropped and its handle joins
AllExited == \A w \in DOMAIN workers : Exited(w)

NewWorker == [pc |-> "recv", data |-> <<>>, parser |-> NewParser, k |-> 0,
              err |-> "none"]

Some(data) == [some |-> TRUE, data |-> data]

None == [some |-> FALSE, data |-> <<>>]

\* Folder::from(opt), then set_nstacks_per_job; nothing called yet
InitOver(ncalls, threads) ==
  /\ \E n \in threads, io \in BOOLEAN :
       opt = [demangle |-> FALSE, includeoffset |-> io, nthreads |-> n]
  /\ nstacks_per_job \in 1..MaxNpj
  /\ parser = NewParser
  /\ occurrences = EmptyOccurrences
  /\ pending = ncalls
  /\ input = <<>>
  /\ pc = "idle"
  /\ result = "none"
  /\ prev_result = "none"
  /\ written = {}
  /\ rest = <<>>
  /\ buf = <<>>
  /\ nones = 0
  /\ tx_input = <<>>
  /\ stop = 0
  /\ rx_output = <<>>
  /\ maybe_error = "none"
  /\ workers = << >>
  /\ sent = <<>>
  /\ first_err = "none"
  /\ drained = FALSE
  /\ added = <<>>
  /\ text = <<>>
  /\ answer = [fn |-> "none", val |-> FALSE]
  /\ received = <<>>

InitWith(ncalls) == InitOver(ncalls, 1..MaxThreads)

Init == InitWith(1)

InitReuse == InitWith(MaxCalls)

(***************************************************************************)
(* collapse: the caller's thread.                                          *)
(***************************************************************************)
\* what every call of collapse starts with: a new reader and a new writer
BeginCall(inp) ==
  /\ pc = "idle"
  /\ pending > 0
  /\ result # "panic"
  /\ input' = inp
  /\ pending' = pending - 1
  /\ prev_result' = result
  /\ written' = {}
  /\ sent' = <<>>
  /\ first_err' = "none"
  /\ drained' = FALSE

\* the stream ends, or read_line fails, before a blank line was read
CollapseNoData(inp) ==
  /\ BeginCall(inp)
  /\ LET h == SkipHeader(inp)
     IN  /\ h.outcome # "body"
         /\ result' = IF h.outcome = "eof" THEN "ok" ELSE "utf8"
  /\ pc' = "idle"
  /\ workers' = << >>
  /\ tx_input' = <<>>
  /\ stop' = 0
  /\ rx_output' = <<>>
  /\ added' = <<>>
  /\ received' = <<>>
  /\ UNCHANGED <<text, answer, folder_vars, parser, occurrences, main_vars>>

\* is_concurrent() is false: collapse_single_threaded(reader) on self
CollapseSingleThreaded(inp) ==
  /\ BeginCall(inp)
  /\ ~is_concurrent
  /\ LET h == SkipHeader(inp)
     IN  /\ h.outcome = "body"
         /\ \E overflow_checks \in BOOLEAN :
              \E r \in {collapse_single_threaded(parser, h.body, opt,
                                                 overflow_checks)} :
                  /\ parser' = r.parser
                  /\ occurrences' = OccAddAll(occurrences, r.adds)
                  /\ added' = r.adds
                  /\ result' = IF r.result = "ok" THEN "none" ELSE r.result
                  /\ pc' = IF r.result = "ok" THEN "write" ELSE "idle"
  /\ received' = <<>>
  /\ UNCHANGED <<text, answer, folder_vars, main_vars, chan_vars, workers>>

\* is_concurrent() is true: collapse_multi_threaded creates the channels and
\* spawns the workers
CollapseMultiThreaded(inp) ==
  /\ BeginCall(inp)
  /\ is_concurrent
  /\ nstacks_per_job # 0
  /\ LET h == SkipHeader(inp)
     IN  /\ h.outcome = "body"
         /\ rest' = h.body
  /\ workers' = [w \in Threads |-> NewWorker]
  /\ tx_input' = <<>>
  /\ stop' = 0
  /\ rx_output' = <<>>
  /\ buf' = <<>>
  /\ nones' = 0
  /\ maybe_error' = "none"
  /\ result' = "none"
  /\ pc' = "read"
  /\ added' = <<>>
  /\ received' = <<>>
  /\ UNCHANGED <<text, answer, folder_vars, parser, occurrences>>

\* the chunking loop up to the next send
MainRead ==
  /\ pc = "read"
  /\ \E c \in {ReadChunk(rest, <<>>, 0, nstacks_per_job)} :
         /\ buf' = c.chunk
         /\ rest' = c.rest
         /\ pc' = IF c.eof THEN "send_last" ELSE "send"
  /\ UNCHANGED <<probe_vars, folder_vars, parser, occurrences, pending, input,
                 result, prev_result, written, nones, chan_vars, maybe_error,
                 workers, sent, first_err, drained>>

\* tx_input.send(msg) returns Err when every receiver is dropped, blocks while
\* the queue is full
SendFails == AllExited

SendRoom == ~AllExited /\ Len(tx_input) < 2 * opt.nthreads

\* tx_input.send(Some(chunk)) after nstacks_per_job stacks
MainSend ==
  /\ pc = "send"
  /\ \/ /\ SendFails
        /\ pc' = "send_none"
        /\ UNCHANGED <<tx_input, sent>>
     \/ /\ SendRoom
        /\ tx_input' = Append(tx_input, Some(buf))
        /\ sent' = Append(sent, [chunk |-> buf, last |-> FALSE])
        /\ pc' = "read"
  /\ buf' = <<>>
  /\ UNCHANGED <<probe_vars, folder_vars, parser, occurrences, pending, input,
                 result, prev_result, written, rest, nones, stop, rx_output,
                 maybe_error, workers, first_err, drained>>

\* MainSendLast without the send: the last slice is never handed to a worker
MainSendLastDropped ==
  /\ pc = "send_last"
  /\ buf' = <<>>
  /\ pc' = "send_none"
  /\ UNCHANGED <<probe_vars, folder_vars, parser, occurrences, pending, input,
                 result, prev_result, written, rest, nones, chan_vars,
                 maybe_error, workers, sent, first_err, drained>>

\* let _ = tx_input.send(Some(buf)) at the end of the data
MainSendLast ==
  /\ pc = "send_last"
  /\ \/ /\ SendFails
        /\ UNCHANGED <<tx_input, sent>>
     \/ /\ SendRoom
        /\ tx_input' = Append(tx_input, Some(buf))
        /\ sent' = Append(sent, [chunk |-> buf, last |-> TRUE])
  /\ buf' = <<>>
  /\ pc' = "send_none"
  /\ UNCHANGED <<probe_vars, folder_vars, parser, occurrences, pending, input,
                 result, prev_result, written, rest, nones, stop, rx_output,
                 maybe_error, workers, first_err, drained>>

\* MainSendNone that sends one None only
MainSendNoneOnce ==
  /\ pc = "send_none"
  /\ \/ /\ SendFails
        /\ UNCHANGED <<tx_input, nones>>
     \/ /\ SendRoom
        /\ tx_input' = Append(tx_input, None)
        /\ nones' = nones + 1
  /\ pc' = "wait"
  /\ UNCHANGED <<probe_vars, folder_vars, parser, occurrences, pending, input,
                 result, prev_result, written, rest, buf, stop, rx_output,
                 maybe_error, workers, sent, first_err, drained>>

\* tx_input.send(None), once for each handle, until a send fails
MainSendNone ==
  /\ pc = "send_none"
  /\ \/ /\ SendFails
        /\ pc' = "wait"
        /\ UNCHANGED <<tx_input, nones>>
     \/ /\ SendRoom
        /\ tx_input' = Append(tx_input, None)
        /\ nones' = nones + 1
        /\ pc' = IF nones + 1 = opt.nthreads THEN "wait" ELSE "send_none"
  /\ UNCHANGED <<probe_vars, folder_vars, parser, occurrences, pending, input,
                 result, prev_result, written, rest, buf, stop, rx_output,
                 maybe_error, workers, sent, first_err, drained>>

\* MainWait that does not block: what is in the channel now is all it looks at
MainWaitNoBlock ==
  /\ pc = "wait"
  /\ \/ /\ rx_output # <<>>
        /\ maybe_error' = Head(rx_output)
        /\ rx_output' = Tail(rx_output)
     \/ /\ rx_output = <<>>
        /\ maybe_error' = "none"
        /\ UNCHANGED rx_output
  /\ pc' = "join"
  /\ UNCHANGED <<probe_vars, folder_vars, parser, occurrences, pending, input,
                 result, prev_result, written, rest, buf, nones, tx_input,
                 stop, workers, sent, first_err, drained>>

\* drop(tx_output); rx_output.iter().find(|result| result.is_err())
MainWait ==
  /\ pc = "wait"
  /\ \/ /\ rx_output # <<>>
        /\ maybe_error' = Head(rx_output)
        /\ rx_output' = Tail(rx_output)
     \/ /\ rx_output = <<>>
        /\ AllExited
        /\ maybe_error' = "none"
        /\ UNCHANGED rx_output
  /\ pc' = "join"
  /\ UNCHANGED <<probe_vars, folder_vars, parser, occurrences, pending, input,
                 result, prev_result, written, rest, buf, nones, tx_input,
                 stop, workers, sent, first_err, drained>>

\* handle.join().unwrap() for every handle, then the result of the scope
MainJoin ==
  /\ pc = "join"
  /\ AllExited
  /\ IF \E w \in DOMAIN workers : workers[w].pc = "panicked"
     THEN result' = "panic" /\ pc' = "idle"
     ELSE IF maybe_error # "none"
     THEN result' = maybe_error /\ pc' = "idle"
     ELSE result' = "none" /\ pc' = "write"
  /\ UNCHANGED <<probe_vars, folder_vars, parser, occurrences, pending, input,
                 prev_result, written, main_vars, chan_vars, workers, sent,
                 first_err, drained>>

\* self.occurrences.write_and_clear(writer), and collapse returns Ok
WriteAndClear ==
  /\ pc = "write"
  /\ written' = OccLines(occurrences)
  /\ occurrences' = EmptyOccurrences
  /\ drained' = TRUE
  /\ result' = "ok"
  /\ pc' = "idle"
  /\ UNCHANGED <<probe_vars, folder_vars, parser, pending, input, prev_result,
                 main_vars, chan_vars, workers, sent, first_err>>

(***************************************************************************)
(* The worker threads.                                                     *)
(***************************************************************************)
\* WorkerRecvInput that takes a chunk from the queue and does not parse it
WorkerRecvInputSkip(w) ==
  /\ workers[w].pc = "recv"
  /\ tx_input # <<>>
  /\ tx_input' = Tail(tx_input)
  /\ workers' = [workers EXCEPT ![w] =
       IF Head(tx_input).some
       THEN [@ EXCEPT !.pc = "recv"]
       ELSE [@ EXCEPT !.pc = "done"]]
  /\ received' = Append(received, [w |-> w, msg |-> Head(tx_input)])
  /\ UNCHANGED <<added, text, answer, folder_vars, parser, occurrences,
                 pending, input, pc, result, prev_result, written, main_vars,
                 stop, rx_output, sent, first_err, drained>>

\* select!: recv(rx_input) is ready
WorkerRecvInput(w) ==
  /\ workers[w].pc = "recv"
  /\ tx_input # <<>>
  /\ tx_input' = Tail(tx_input)
  /\ workers' = [workers EXCEPT ![w] =
       IF Head(tx_input).some
       THEN [@ EXCEPT !.pc = "work", !.data = Head(tx_input).data]
       ELSE [@ EXCEPT !.pc = "done"]]
  /\ received' = Append(received, [w |-> w, msg |-> Head(tx_input)])
  /\ UNCHANGED <<added, text, answer, folder_vars, parser, occurrences,
                 pending, input,
                 pc, result, prev_result, written, main_vars, stop, rx_output,
                 sent, first_err, drained>>

\* select!: recv(rx_stop) is ready
WorkerRecvStop(w) ==
  /\ workers[w].pc = "recv"
  /\ stop > 0
  /\ stop' = stop - 1
  /\ workers' = [workers EXCEPT ![w].pc = "done"]
  /\ UNCHANGED <<probe_vars, folder_vars, parser, occurrences, pending, input,
                 pc, result, prev_result, written, main_vars, tx_input,
                 rx_output, sent, first_err, drained>>

\* folder.collapse_single_threaded(&data[..]) on the worker's own Folder
WorkerCollapse(w) ==
  /\ workers[w].pc = "work"
  /\ \E overflow_checks \in BOOLEAN :
       \E r \in {collapse_single_threaded(workers[w].parser, workers[w].data,
                                          opt, overflow_checks)} :
           /\ occurrences' = OccAddAll(occurrences, r.adds)
           /\ added' = added \o r.adds
           /\ workers' = [workers EXCEPT ![w] =
                IF r.result = "ok"
                THEN [@ EXCEPT !.pc = "recv", !.data = <<>>, !.parser = r.parser]
                ELSE IF r.result = "panic"
                THEN [@ EXCEPT !.pc = "panicked", !.data = <<>>,
                               !.parser = r.parser]
                ELSE [@ EXCEPT !.pc = "signal", !.data = <<>>,
                               !.parser = r.parser, !.err = r.result,
                               !.k = opt.nthreads - 1]]
  /\ UNCHANGED <<text, answer, received, folder_vars, parser, pending, input, pc, result,
                 prev_result, written, main_vars, chan_vars, sent, first_err,
                 drained>>

\* WorkerSignal with no try_send in it
WorkerSignalDrop(w) ==
  /\ workers[w].pc = "signal"
  /\ stop' = stop
  /\ workers' = [workers EXCEPT ![w] =
       [@ EXCEPT !.k = @ - 1,
                 !.pc = IF workers[w].k = 1 THEN "report" ELSE "signal"]]
  /\ UNCHANGED <<probe_vars, folder_vars, parser, occurrences, pending, input,
                 pc, result, prev_result, written, main_vars, tx_input,
                 rx_output, sent, first_err, drained>>

\* one tx_stop.try_send(()) of the nthreads - 1
WorkerSignal(w) ==
  /\ workers[w].pc = "signal"
  /\ stop' = IF stop < opt.nthreads - 1 THEN stop + 1 ELSE stop
  /\ workers' = [workers EXCEPT ![w] =
       [@ EXCEPT !.k = @ - 1,
                 !.pc = IF workers[w].k = 1 THEN "report" ELSE "signal"]]
  /\ UNCHANGED <<probe_vars, folder_vars, parser, occurrences, pending, input,
                 pc, result, prev_result, written, main_vars, tx_input,
                 rx_output, sent, first_err, drained>>

\* tx_output.try_send(Err(e)), and the thread returns
WorkerReport(w) ==
  /\ workers[w].pc = "report"
  /\ IF rx_output = <<>>
     THEN /\ rx_output' = <<workers[w].err>>
          /\ first_err' = IF first_err = "none" THEN workers[w].err ELSE first_err
     ELSE UNCHANGED <<rx_output, first_err>>
  /\ workers' = [workers EXCEPT ![w].pc = "done"]
  /\ UNCHANGED <<probe_vars, folder_vars, parser, occurrences, pending, input,
                 pc, result, prev_result, written, main_vars, tx_input, stop,
                 sent, drained>>

Worker(w) ==
  \/ WorkerRecvInput(w)
  \/ WorkerRecvStop(w)
  \/ WorkerCollapse(w)
  \/ WorkerSignal(w)
  \/ WorkerReport(w)

\* collapse(reader, writer) on the input inp
Collapse(inp) ==
  \/ CollapseNoData(inp)
  \/ CollapseSingleThreaded(inp)
  \/ CollapseMultiThreaded(inp)

\* the caller's thread inside collapse_multi_threaded and after it
Orchestrator ==
  \/ MainRead
  \/ MainSend
  \/ MainSendLast
  \/ MainSendNone
  \/ MainWait
  \/ MainJoin
  \/ WriteAndClear

\* the caller calls collapse only when no call is running
CanCall == pc = "idle" /\ pending > 0 /\ result # "panic"

Call == CanCall /\ \E inp \in Inputs : Collapse(inp)

CallReuse == CanCall /\ \E inp \in ReuseInputs : Collapse(inp)

CallFair == CanCall /\ \E inp \in FairInputs : Collapse(inp)

Workers == \E w \in DOMAIN workers : Worker(w)

Next == Call \/ Orchestrator \/ Workers

NextReuse == CallReuse \/ Orchestrator \/ Workers

NextFair == CallFair \/ Orchestrator \/ Workers

\* one call of collapse on a new Folder
Spec == Init /\ [][Next]_vars

\* up to MaxCalls calls of collapse on the same Folder
SpecReuse == InitReuse /\ [][NextReuse]_vars

\* every thread that can take a step is scheduled: the caller's thread and
\* each spawned worker thread
Fairness ==
  /\ WF_vars(CallFair \/ Orchestrator)
  /\ \A w \in 1..MaxThreads : WF_vars(w \in DOMAIN workers /\ Worker(w))

\* one call of collapse on a new Folder, its threads scheduled fairly
SpecFair == Init /\ [][NextFair]_vars /\ Fairness

\* inputs of the calls in which workers are stopped: chunks that fail in
\* their worker ("a\xF0", "1": not UTF-8), chunks that do not ("a", "1"),
\* and chunks on which it may panic ("1")
StopInputs ==
  {<<LBlank>> \o Concat(cs) :
     cs \in SeqsUpTo({<<LBadUtf8, LCount>>, <<LFrame, LCount>>, <<LCount>>},
                     MaxStopChunks)}

CallStop == CanCall /\ \E inp \in StopInputs : CollapseMultiThreaded(inp)

NextStop == CallStop \/ Orchestrator \/ Workers

InitStop == InitOver(1, {MaxStopThreads}) /\ nstacks_per_job = 1

FairnessStop ==
  /\ WF_vars(CallStop \/ Orchestrator)
  /\ \A w \in 1..MaxStopThreads : WF_vars(w \in DOMAIN workers /\ Worker(w))

\* one call of collapse with MaxStopThreads workers and chunks of one trace,
\* its threads scheduled fairly
SpecStop == InitStop /\ [][NextStop]_vars /\ FairnessStop

(***************************************************************************)
(* collapse in concurrent mode on a reader whose reads can fail with an    *)
(* I/O error (R: io::BufRead).                                             *)
(***************************************************************************)
\* read_line fails with an I/O error in the preamble: `?` returns the Err
CollapseReadError(inp) ==
  /\ BeginCall(inp)
  /\ result' = "io"
  /\ pc' = "idle"
  /\ workers' = << >>
  /\ tx_input' = <<>>
  /\ stop' = 0
  /\ rx_output' = <<>>
  /\ added' = <<>>
  /\ received' = <<>>
  /\ UNCHANGED <<text, answer, folder_vars, parser, occurrences, main_vars>>

\* reader.read_until(b'\n', &mut buf)? fails in the chunking loop: the
\* closure of the scope returns the Err and its locals are dropped, tx_input
\* among them; the scope then waits for the threads it spawned
MainReadError ==
  /\ pc = "read"
  /\ pc' = "closed"
  /\ maybe_error' = "io"
  /\ buf' = <<>>
  /\ UNCHANGED <<probe_vars, folder_vars, parser, occurrences, pending, input,
                 result, prev_result, written, rest, nones, chan_vars, workers,
                 sent, first_err, drained>>

\* select!: recv(rx_input) is ready with Err(RecvError), the queue being
\* empty and its sending side dropped; input.unwrap() panics
WorkerRecvClosed(w) ==
  /\ workers[w].pc = "recv"
  /\ pc = "closed"
  /\ tx_input = <<>>
  /\ workers' = [workers EXCEPT ![w] =
       [@ EXCEPT !.pc = "panicked", !.err = "RecvError"]]
  /\ UNCHANGED <<probe_vars, folder_vars, parser, occurrences, pending, input,
                 pc, result, prev_result, written, main_vars, chan_vars, sent,
                 first_err, drained>>

\* the scope has joined its threads: .unwrap() of its result panics when a
\* thread panicked, and the Err of the closure is returned otherwise
MainScopeEnd ==
  /\ pc = "closed"
  /\ AllExited
  /\ result' = IF \E w \in DOMAIN workers : workers[w].pc = "panicked"
               THEN "panic" ELSE maybe_error
  /\ pc' = "idle"
  /\ UNCHANGED <<probe_vars, folder_vars, parser, occurrences, pending, input,
                 prev_result, written, main_vars, chan_vars, workers, sent,
                 first_err, drained>>

CallIo ==
  /\ CanCall
  /\ \E inp \in FairInputs :
       \/ CollapseNoData(inp)
       \/ CollapseReadError(inp)
       \/ CollapseMultiThreaded(inp)

WorkersIo == \E w \in DOMAIN workers : Worker(w) \/ WorkerRecvClosed(w)

NextIo == CallIo \/ Orchestrator \/ MainReadError \/ MainScopeEnd \/ WorkersIo

InitIo == InitOver(1, 2..MaxThreads)

\* one call of collapse in concurrent mode on a reader that can fail
SpecIo == InitIo /\ [][NextIo]_vars

(***************************************************************************)
(* collapse with one thread, its read loop taken one line at a step.       *)
(***************************************************************************)
\* collapse has read the preamble up to its blank line
BeginLines ==
  /\ CanCall
  /\ ~is_concurrent
  /\ input' = <<LBlank>>
  /\ pending' = pending - 1
  /\ prev_result' = result
  /\ result' = "none"
  /\ written' = {}
  /\ drained' = FALSE
  /\ added' = <<>>
  /\ pc' = "lines"
  /\ UNCHANGED <<folder_vars, parser, occurrences, main_vars, chan_vars,
                 workers, sent, first_err, text, answer, received>>

\* one turn of the loop of collapse_single_threaded on the line l
ReadLine(l, maxlines) ==
  /\ pc = "lines"
  /\ Len(input) <= maxlines
  /\ input' = Append(input, l)
  /\ IF ~IsUtf8(l \o <<NL>>)
     THEN /\ result' = "utf8"
          /\ pc' = "idle"
          /\ UNCHANGED <<parser, occurrences, added>>
     ELSE IF Trim(l \o <<NL>>) = <<>>
     THEN UNCHANGED <<parser, occurrences, added, result, pc>>
     ELSE \E overflow_checks \in BOOLEAN :
            \E r \in {ParseLine(parser, Trim(l \o <<NL>>), <<>>, opt,
                                overflow_checks)} :
              /\ parser' = r.parser
              /\ occurrences' = OccAddAll(occurrences, r.adds)
              /\ added' = added \o r.adds
              /\ result' = IF r.result = "panic" THEN "panic" ELSE result
              /\ pc' = IF r.result = "panic" THEN "idle" ELSE "lines"
  /\ UNCHANGED <<folder_vars, pending, prev_result, written, main_vars,
                 chan_vars, workers, sent, first_err, drained, text, answer,
                 received>>

\* read_line returns 0: the check for a stack that has not ended
ReadEof ==
  /\ pc = "lines"
  /\ IF parser.stack # <<>> \/ parser.stack_str_size # 0
     THEN result' = "truncated" /\ pc' = "idle"
     ELSE result' = result /\ pc' = "write"
  /\ UNCHANGED <<folder_vars, parser, occurrences, pending, input,
                 prev_result, written, main_vars, chan_vars, workers, sent,
                 first_err, drained, probe_vars>>

ReadLines == \E l \in LineAlphabet : ReadLine(l, MaxLines)

NextLines == BeginLines \/ ReadLines \/ ReadEof \/ WriteAndClear

InitLines == InitWith(1) /\ ~is_concurrent

\* one call of collapse on a new Folder with one thread, line by line
SpecLines == InitLines /\ [][NextLines]_vars

(***************************************************************************)
(* The functions that are applied alone, each to one argument.             *)
(***************************************************************************)
\* everything but the argument and the answer
call_vars == <<opt, nstacks_per_job, parser, occurrences, pending, input, pc,
               result, prev_result, written, rest, buf, nones, tx_input, stop,
               rx_output, maybe_error, workers, sent, first_err, drained,
               added, received>>

\* "S" and "S::G": scopes
Scopes == {<<83>>, <<83, 58, 58, 71>>}

\* "", "<T>" and "<A<B>>": template arguments
Templates == {<<>>, <<60, 84, 62>>, <<60, 65, 60, 66, 62, 62>>}

\* "", "x", "A<B>" and "f(x)": what is between the parentheses
Arguments == {<<>>, <<120>>, <<65, 60, 66, 62>>, <<102, 40, 120, 41>>}

\* "", "r", "[r]" and "(r)": what follows the parameter list
Rests == {<<>>, <<114>>, <<91, 114, 93>>, <<40, 114, 41>>}

\* scope::F template
ScopedName(sc, tm) == sc \o <<58, 58, 70>> \o tm

\* scope::F template (args) rest
Signature(sc, tm, ar, re) == ScopedName(sc, tm) \o <<40>> \o ar \o <<41>> \o re

\* "", "F", "F(x)", "F<T>(x)", "S:F(x)": no "::"; "S::F", "S::G::F",
\* "F(x)::G", "<T>::F": no '(' or '<' after the first "::"; "S::F<T>"
PlainTexts ==
  {<<>>, <<70>>, <<70, 40, 120, 41>>, <<70, 60, 84, 62, 40, 120, 41>>,
   <<83, 58, 70, 40, 120, 41>>, <<83, 58, 58, 70>>,
   <<83, 58, 58, 71, 58, 58, 70>>, <<70, 40, 120, 41, 58, 58, 71>>,
   <<60, 84, 62, 58, 58, 70>>, <<83, 58, 58, 70, 60, 84, 62>>}

UncppTexts ==
  PlainTexts \cup {Signature(sc, tm, ar, re) :
                     sc \in Scopes, tm \in Templates, ar \in Arguments,
                     re \in Rests}

\* Folder::uncpp(probe)
ApplyUncpp ==
  /\ answer.fn = "none"
  /\ \E probe \in UncppTexts :
       /\ text' = probe
       /\ answer' = [fn |-> "uncpp", val |-> uncpp(probe)]
  /\ UNCHANGED call_vars

\* " ", a tab, "0", "1", "+", "a", U+00A0 (no-break space) in UTF-8, the byte
\* 0x85 alone, usize::MAX and usize::MAX + 1 in decimal digits
EosPieces ==
  {<<32>>, <<9>>, <<48>>, <<49>>, <<43>>, <<97>>, <<194, 160>>, <<133>>,
   <<49, 56, 52, 52, 54, 55, 52, 52, 48, 55, 51, 55, 48, 57, 53, 53, 49, 54,
     49, 53>>,
   <<49, 56, 52, 52, 54, 55, 52, 52, 48, 55, 51, 55, 48, 57, 53, 53, 49, 54,
     49, 54>>}

\* the lines read_until(b'\n') returns, the '\n' included
EosLines == {Concat(ps) \o <<NL>> : ps \in SeqsUpTo(EosPieces, MaxPieces)}

\* is_end_of_stack(&buf[line_start..])
ApplyIsEndOfStack ==
  /\ answer.fn = "none"
  /\ \E line \in EosLines :
       /\ text' = line
       /\ answer' = [fn |-> "is_end_of_stack", val |-> is_end_of_stack(line)]
  /\ UNCHANGED call_vars

\* is_applicable(input)
ApplyIsApplicable ==
  /\ answer.fn = "none"
  /\ \E sample \in SeqsUpTo(SampleAlphabet, MaxSample) :
       /\ text' = sample
       /\ answer' = [fn |-> "is_applicable", val |-> is_applicable(sample)]
  /\ UNCHANGED call_vars

NextFunctions == ApplyUncpp \/ ApplyIsEndOfStack \/ ApplyIsApplicable

\* one function applied to one argument
SpecFunctions == Init /\ [][NextFunctions]_vars

TypeOK ==
  /\ pc \in {"idle", "read", "send", "send_last", "send_none", "wait", "join",
             "write", "lines", "closed"}
  /\ result \in {"none", "ok", "utf8", "truncated", "panic", "io"}
  /\ Len(tx_input) <= 2 * opt.nthreads
  /\ stop \in 0..(opt.nthreads - 1)
  /\ Len(rx_output) <= 1

(***************************************************************************)
(* Vocabulary of the properties.                                           *)
(***************************************************************************)
\* how the parser classifies a line: "bad" (not UTF-8), "blank", "count", "frame"
LineKind(l) ==
  LET raw == l \o <<NL>>
  IN  IF ~IsUtf8(raw) THEN "bad"
      ELSE IF Trim(raw) = <<>> THEN "blank"
      ELSE IF ParseUsize(Trim(raw)).ok THEN "count"
      ELSE "frame"

HasBody(inp) == SkipHeader(inp).outcome = "body"

Body(inp) == SkipHeader(inp).body

\* traces of one or more frame lines and a count line, blank lines only
\* between traces; frame lines of the kinds in ok_frames
RECURSIVE TracesOf(_, _, _)
TracesOf(lines, open, ok_frames) ==
  IF lines = <<>> THEN ~open
  ELSE LET k == LineKind(Head(lines))
       IN  IF k = "blank" THEN ~open /\ TracesOf(Tail(lines), FALSE, ok_frames)
           ELSE IF k = "count" THEN open /\ TracesOf(Tail(lines), FALSE, ok_frames)
           ELSE k \in ok_frames /\ TracesOf(Tail(lines), TRUE, ok_frames)

\* a preamble, a blank line, then traces
ValidInput(inp) == HasBody(inp) /\ TracesOf(Body(inp), FALSE, {"frame"})

\* as ValidInput, but one frame line or more is not valid UTF-8
BadTraceAmongValid(inp) ==
  /\ HasBody(inp)
  /\ TracesOf(Body(inp), FALSE, {"frame", "bad"})
  /\ \E i \in 1..Len(Body(inp)) : LineKind(Body(inp)[i]) = "bad"

\* the lines a new Folder with one thread writes for the input, when it
\* returns Ok
SingleThreadedOutput(inp) ==
  IF HasBody(inp)
  THEN OccLines(OccAddAll(EmptyOccurrences,
         collapse_single_threaded(NewParser, Body(inp), opt, FALSE).adds))
  ELSE {}

\* the call of collapse has ended
Finished == pc = "idle" /\ result # "none"

NonBlank(lines) == SelectSeq(lines, LAMBDA l : LineKind(l) # "blank")

\* the last line that is not blank is a frame line: frames are pending at the end
EndsInFrames(lines) ==
  LET nb == NonBlank(lines)
  IN  nb # <<>> /\ LineKind(nb[Len(nb)]) \in {"frame", "bad"}

Failed == {w \in DOMAIN workers : workers[w].err # "none"}

Panicked == {w \in DOMAIN workers : workers[w].pc = "panicked"}

(***************************************************************************)
(* Properties.                                                             *)
(***************************************************************************)
\* C1: thread-count invariance. For every valid input and every worker count
\* (1 and more), the call returns Ok and the lines written are the lines the
\* single-threaded path writes for that input with the same options.
ThreadCountInvariance ==
  (Finished /\ ValidInput(input))
    => (result = "ok" /\ written = SingleThreadedOutput(input))

\* a concurrent run on a valid input whose traces went out in two chunks and
\* the last slice, and were summed under one key
ThreadCountInvarianceWitness ==
  /\ Finished
  /\ is_concurrent
  /\ ValidInput(input)
  /\ Len(sent) >= 3
  /\ \E l \in written : l[2] = 2

NoTraceSplit ==
  \A i \in 1..Len(sent) :
    ~sent[i].last => ~EndsInFrames(sent[i].chunk)

\* C4: all or nothing in concurrent mode. When a worker's chunk failed to
\* parse, the call returns the error placed first in the error channel, which
\* is the error of a failed worker, and nothing is written; when no worker
\* failed, the call returns Ok and the whole aggregated output is written;
\* an Err never comes with output.
AllOrNothing ==
  (Finished /\ DOMAIN workers # {}) =>
    /\ Failed # {} =>
         /\ result = first_err
         /\ result \in {workers[w].err : w \in Failed}
         /\ written = {}
    /\ Failed = {} =>
         /\ result = "ok"
         /\ written = SingleThreadedOutput(input)
    /\ result # "ok" => written = {}

\* AllOrNothing, for the runs in which no worker thread panicked
AllOrNothingUnlessPanic == Panicked = {} => AllOrNothing

\* C5: truncation detection. In both modes, when every line decodes and the
\* input after the preamble ends with frame lines pending, the call returns
\* the error "Input data ends in the middle of a stack." and writes nothing.
TruncationDetected ==
  (/\ Finished
   /\ HasBody(input)
   /\ \A i \in 1..Len(input) : LineKind(input[i]) # "bad"
   /\ EndsInFrames(Body(input)))
    => (result = "truncated" /\ written = {})

\* TruncationDetected, for the calls that did not panic
TruncationDetectedUnlessPanic == result # "panic" => TruncationDetected

CollapseTerminates ==
  (is_concurrent /\ pc = "read")
    ~> (Finished /\ \A w \in DOMAIN workers : Exited(w))

\* a call that ended after a worker had failed on the first of two chunks
\* and the other worker had left its loop
CollapseTerminatesWitness ==
  /\ Finished
  /\ is_concurrent
  /\ Failed # {}
  /\ Panicked = {}
  /\ Len(sent) >= 2
  /\ Cardinality(DOMAIN workers) = 2
  /\ \A w \in DOMAIN workers : Exited(w)

\* C8: the drain comes after the workers. In concurrent mode write_and_clear
\* runs only when every worker has exited, and from then on nothing is added
\* to the aggregator.
DrainAfterWorkers ==
  /\ []((is_concurrent /\ (pc = "write" \/ drained))
          => \A w \in DOMAIN workers : Exited(w))
  /\ [][((pc = "write" \/ drained) /\ occurrences' # occurrences)
          => (pc = "write" /\ occurrences' = EmptyOccurrences)]_vars

\* a drained concurrent run that wrote what its workers had added
DrainAfterWorkersWitness ==
  /\ is_concurrent
  /\ drained
  /\ written # {}
  /\ ValidInput(input)
  /\ Len(sent) >= 2
  /\ \A w \in DOMAIN workers : Exited(w)

\* C9: aggregator reuse. When the call before this one on the same Folder
\* returned Ok and this call returns Ok, the lines written are the lines a
\* new Folder writes for this call's input: no key, count or frame of an
\* earlier call is in them.
AggregatorReuse ==
  (Finished /\ prev_result = "ok" /\ result = "ok")
    => written = SingleThreadedOutput(input)

\* AggregatorReuse, for the second call on a Folder whose first call
\* returned Ok
AggregatorReuseSecondCall == pending = MaxCalls - 2 => AggregatorReuse

\* C10: a failed run leaves nothing behind. When the call before this one on
\* the same Folder returned Err (truncated trace or invalid UTF-8) and this
\* call returns Ok, the lines written are the lines a new Folder writes for
\* this call's input.
FailedRunLeavesNothing ==
  (Finished /\ prev_result \in {"utf8", "truncated"} /\ result = "ok")
    => written = SingleThreadedOutput(input)

\* FailedRunLeavesNothing, when the failed call left the aggregator and the
\* pending stack empty
FailedRunLeavesNothingUnlessLeft ==
  [][(/\ CallReuse
      /\ result \in {"utf8", "truncated"}
      /\ occurrences = EmptyOccurrences
      /\ parser = NewParser
      /\ result' = "ok") => written' = SingleThreadedOutput(input')]_vars

\* the traces of the lines read: for every count line, the frame lines read
\* since the count line before it (in reading order) and its count; nothing
\* from a line that is not UTF-8 on
RECURSIVE TracesIn(_, _)
TracesIn(lines, frames) ==
  IF lines = <<>> THEN <<>>
  ELSE LET k == LineKind(Head(lines))
           line == Trim(Head(lines) \o <<NL>>)
       IN  IF k = "bad" THEN <<>>
           ELSE IF k = "blank" THEN TracesIn(Tail(lines), frames)
           ELSE IF k = "count"
           THEN <<[frames |-> frames, count |-> ParseUsize(line).val]>>
                  \o TracesIn(Tail(lines), <<>>)
           ELSE TracesIn(Tail(lines), Append(frames, line))

\* the traces of the call that is read line by line
TracesRead == IF input = <<>> THEN <<>> ELSE TracesIn(Tail(input), <<>>)

HasInlineMarker(f) == \E i \in 1..(Len(f) - 1) : f[i] = 45 /\ f[i + 1] = 62

\* clean(f): the frame the transformer gives for the line f read alone
CleanFrame(f) == on_stack_line(NewParser, f, opt).stack[1]

\* clean(fk);...;clean(f1) for the frame lines f1, ..., fk in reading order;
\* the leaf f1 is without its offset when offsets are kept
RECURSIVE RootFirst(_)
RootFirst(frames) ==
  IF frames = <<>> THEN <<>>
  ELSE IF Len(frames) = 1
  THEN IF opt.includeoffset THEN remove_offset(CleanFrame(frames[1])).frame
       ELSE CleanFrame(frames[1])
  ELSE CleanFrame(frames[Len(frames)]) \o <<59>>
         \o RootFirst(SubSeq(frames, 1, Len(frames) - 1))

\* C11: root-first emission. For every trace read whose frame lines f1, ...,
\* fk (k >= 1) have no inline marker, one add is made, in the order of the
\* traces, with the key clean(fk);...;clean(f1) and the count of its count
\* line; and there are no adds but those of the traces read.
RootFirstEmission ==
  LET ts == TracesRead
  IN  /\ Len(added) <= Len(ts)
      /\ \A i \in 1..Len(ts) :
           (ts[i].frames # <<>> /\ \A j \in 1..Len(ts[i].frames) :
                                     ~HasInlineMarker(ts[i].frames[j]))
             => /\ i <= Len(added)
                /\ added[i] = <<RootFirst(ts[i].frames), ts[i].count>>

\* "m`f+1", "m`g+2", "2", "m`f+1", "1" with the default options is written
\* as the two lines "m`g;m`f 2" and "m`f 1"
RootFirstEmissionWitness ==
  /\ Finished
  /\ ~opt.includeoffset
  /\ input = <<LBlank, LFrameF, LFrameG, LCount2, LFrameF, LCount>>
  /\ written = {<<<<109, 96, 103, 59, 109, 96, 102>>, 2>>,
                <<<<109, 96, 102>>, 1>>}

\* a frame line of the form mod`func+off, with no inline marker
IsModFuncOff(f) ==
  /\ ~HasInlineMarker(f)
  /\ \E t \in 1..Len(f) : f[t] = 96 /\ \E q \in (t + 2)..(Len(f) - 1) : f[q] = 43

\* mod`func of mod`func+off
WithoutOffset(f) == SubSeq(f, 1, Max({q \in 1..Len(f) : f[q] = 43}) - 1)

\* what the offset rule says is emitted for the frame lines f1, ..., fk of a
\* trace, root first
RECURSIVE OffsetRuleKey(_)
OffsetRuleKey(frames) ==
  IF Len(frames) = 1 THEN WithoutOffset(frames[1])
  ELSE (IF opt.includeoffset THEN frames[Len(frames)]
        ELSE WithoutOffset(frames[Len(frames)]))
         \o <<59>> \o OffsetRuleKey(SubSeq(frames, 1, Len(frames) - 1))

AllModFuncOff(frames) ==
  frames # <<>> /\ \A j \in 1..Len(frames) : IsModFuncOff(frames[j])

\* C12: offset rule. For a trace of frame lines of the form mod`func+off:
\* with includeoffset disabled every frame is emitted as mod`func; with
\* includeoffset enabled every interior frame is emitted unchanged and the
\* leaf (the first line read) as mod`func.
OffsetRule ==
  \A i \in 1..Len(added) :
    AllModFuncOff(TracesRead[i].frames)
      => added[i][1] = OffsetRuleKey(TracesRead[i].frames)

\* OffsetRule, for the traces in which no frame line starts with 'L'
OffsetRuleUnlessL ==
  \A i \in 1..Len(added) :
    (/\ AllModFuncOff(TracesRead[i].frames)
     /\ \A j \in 1..Len(TracesRead[i].frames) : TracesRead[i].frames[j][1] # 76)
      => added[i][1] = OffsetRuleKey(TracesRead[i].frames)

\* the frame lines read since the last count line, in reading order
RECURSIVE PendingIn(_, _)
PendingIn(lines, frames) ==
  IF lines = <<>> THEN frames
  ELSE LET k == LineKind(Head(lines))
       IN  IF k = "bad" THEN frames
           ELSE IF k = "blank" THEN PendingIn(Tail(lines), frames)
           ELSE IF k = "count" THEN PendingIn(Tail(lines), <<>>)
           ELSE PendingIn(Tail(lines), Append(frames, Trim(Head(lines) \o <<NL>>)))

\* the frames a trace's frame lines f1, ..., fk stand for, root first, when
\* the line "m`a->b->c" stands for first, "b_[i]", "c_[i]"
RECURSIVE ExpandedWith(_, _)
ExpandedWith(frames, first) ==
  IF frames = <<>> THEN <<>>
  ELSE (IF frames[Len(frames)] = LInline
        THEN <<first, <<98>> \o InlineTag, <<99>> \o InlineTag>>
        ELSE <<CleanFrame(frames[Len(frames)])>>)
         \o ExpandedWith(SubSeq(frames, 1, Len(frames) - 1), first)

\* the key of the frames fs, the leaf without its offset when offsets are kept
KeyOf(fs) ==
  JoinFrames([i \in 1..Len(fs) |->
    IF opt.includeoffset /\ i = Len(fs) THEN remove_offset(fs[i]).frame
    ELSE fs[i]])

InlineExpansionWith(first) ==
  /\ (pc = "lines" /\ input # <<>>)
       => parser.stack = ExpandedWith(PendingIn(Tail(input), <<>>), first)
  /\ \A i \in 1..Len(added) :
       added[i][1] = KeyOf(ExpandedWith(TracesRead[i].frames, first))

\* C13 as stated: the line m`a->b->c is expanded into the three adjacent
\* frames a, b_[i], c_[i], in that order, root-ward of the frames of the lines
\* read earlier in the trace, in the pending stack and in the key emitted.
InlineExpansionStated == InlineExpansionWith(<<97>>)

\* C13: the line m`a->b->c is expanded into the three adjacent frames m`a,
\* b_[i], c_[i] (the first name keeps the module prefix), in that order,
\* root-ward of the frames of the lines read earlier in the trace, in the
\* pending stack and in the key emitted.
InlineExpansion == InlineExpansionWith(<<109, 96, 97>>)

\* "m`f+1", "m`a->b->c", "1" is written as "m`a;b_[i];c_[i];m`f 1"
InlineExpansionWitness ==
  /\ Finished
  /\ input = <<LBlank, LFrameF, LInline, LCount>>
  /\ written = {<<<<109, 96, 97, 59, 98, 95, 91, 105, 93, 59,
                   99, 95, 91, 105, 93, 59, 109, 96, 102>>, 1>>}

IsPrefixOf(a, b) == Len(a) <= Len(b) /\ a = SubSeq(b, 1, Len(a))

HasOpen(t) == \E i \in 1..Len(t) : t[i] = 40 \/ t[i] = 60

\* t has no "::", or no '(' and no '<' after its first "::"
NothingToTrim(t) ==
  LET scopes == {i \in 1..(Len(t) - 1) : t[i] = 58 /\ t[i + 1] = 58}
  IN  \/ scopes = {}
      \/ \A j \in 1..Len(t) :
           (\A i \in scopes : i + 2 <= j) => (t[j] # 40 /\ t[j] # 60)

\* uncpp on the texts scope::F template (args) rest with args among Args and
\* rest among Rs, on the texts with nothing to trim, and on every text
UncppTrimOver(Args, Rs) ==
  answer.fn = "uncpp" =>
    /\ IsPrefixOf(answer.val, text)
    /\ NothingToTrim(text) => answer.val = text
    /\ \A sc \in Scopes, tm \in Templates, ar \in Args, re \in Rs :
         text = Signature(sc, tm, ar, re) => answer.val = ScopedName(sc, tm)

\* C14 as stated: uncpp removes the trailing parameter list of a scoped name
\* and keeps the nested scopes and the template arguments, S::F(args)rest ->
\* S::F, S::F<T>(args)rest -> S::F<T>, S::G::F<T>(args)rest -> S::G::F<T>,
\* for every args and rest; a text with no "::", or with no '(' or '<' after
\* its first "::", is returned unchanged; the result is a prefix of the input.
UncppTrimStated == UncppTrimOver(Arguments, Rests)

\* C14: the same, for the args and the rest that have no '(' and no '<'.
UncppTrim ==
  UncppTrimOver({ar \in Arguments : ~HasOpen(ar)}, {re \in Rests : ~HasOpen(re)})

\* uncpp("S::G::F<T>(x)[r]") = "S::G::F<T>"
UncppTrimWitness ==
  /\ answer.fn = "uncpp"
  /\ text = Signature(<<83, 58, 58, 71>>, <<60, 84, 62>>, <<120>>, <<91, 114, 93>>)
  /\ answer.val = <<83, 58, 58, 71, 58, 58, 70, 60, 84, 62>>

\* C15: the boundary detector equals the parser's test for a count line. For
\* every byte line, is_end_of_stack(line) is true exactly when the line is
\* valid UTF-8 and its trimmed text parses as a usize, that is when
\* collapse_single_threaded calls on_stack_end for the line.
EosEqualsParse ==
  answer.fn = "is_end_of_stack" =>
    answer.val = (IsUtf8(text) /\ ParseUsize(Trim(text)).ok)

\* EosEqualsParse for the lines of ASCII digits within usize, with ASCII
\* whitespace around them
EosEqualsParseOnCounts ==
  (/\ answer.fn = "is_end_of_stack"
   /\ Trim(text) # <<>>
   /\ \A i \in 1..Len(text) : text[i] \in {9, 32, NL} \/ IsAsciiDigit(text[i])
   /\ Len(Trim(text)) < 20)
    => (answer.val = ParseUsize(Trim(text)).ok)

\* how the sniffer's claim sees a line: "blank", "count" (decimal digits that
\* make a usize, with an optional '+'), "frame" (a '`' in it, or "0x" and
\* hexadecimal digits of a value below 2^64, with an optional '+'), "other"
SampleKind(l) ==
  LET line == Trim(l \o <<NL>>)
      hex == IF Len(line) >= 3 /\ line[3] = 43 THEN SubSeq(line, 4, Len(line))
             ELSE SubSeq(line, 3, Len(line))
  IN  IF line = <<>> THEN "blank"
      ELSE IF ParseUsize(line).ok THEN "count"
      ELSE IF \E i \in 1..Len(line) : line[i] = 96 THEN "frame"
      ELSE IF /\ Len(line) >= 3 /\ line[1] = 48 /\ line[2] = 120
              /\ hex # <<>>
              /\ \A i \in 1..Len(hex) : IsHexDigit(hex[i])
              /\ Cardinality({i \in 1..Len(hex) :
                                \E j \in 1..i : hex[j] # 48}) <= 16
      THEN "frame"
      ELSE "other"

\* C16: the decision of the format sniffer. With b the first blank line of
\* the sample and d the first line after b that is a count line or is neither
\* blank, count nor frame-like: the answer is None exactly when there is no b
\* or no d; at a count line d it is Some(true) when a line between b and d is
\* frame-like and Some(false) when none is; at another line d it is
\* Some(false). The lines before b do not count.
SnifferDecision ==
  answer.fn = "is_applicable" =>
    LET n == Len(text)
        blanks == {i \in 1..n : SampleKind(text[i]) = "blank"}
        b == IF blanks = {} THEN n + 1 ELSE Min(blanks)
        ds == {i \in (b + 1)..n : SampleKind(text[i]) \in {"count", "other"}}
        d == IF ds = {} THEN n + 1 ELSE Min(ds)
    IN  /\ (answer.val = "None") <=> (ds = {})
        /\ ds # {} =>
             answer.val =
               IF /\ SampleKind(text[d]) = "count"
                  /\ \E i \in (b + 1)..(d - 1) : SampleKind(text[i]) = "frame"
               THEN "Some(true)" ELSE "Some(false)"

\* "a", "", "m`f", "1": Some(true), the line before the blank one ignored
SnifferDecisionWitness ==
  /\ answer.fn = "is_applicable"
  /\ text = <<LFrame, LBlank, LTick, LCount>>
  /\ answer.val = "Some(true)"

\* every line of the stream is read and none of them is blank
EndsBeforeBlank(inp) ==
  \A i \in 1..Len(inp) :
    IsUtf8(inp[i] \o <<NL>>) /\ Trim(inp[i] \o <<NL>>) # <<>>

\* C17: empty input. When the stream of a call ends before a blank line is
\* read, the call does nothing but return Ok, in both modes: nothing is
\* written, no worker is started, no chunk is sent, and the aggregator gets
\* no add and no drain.
EmptyInputOk ==
  (EndsBeforeBlank(input) /\ (pc # "idle" \/ result # "none"))
    => /\ pc = "idle"
       /\ result = "ok"
       /\ written = {}
       /\ workers = << >>
       /\ sent = <<>>
       /\ added = <<>>
       /\ ~drained

\* the step of such a call leaves the aggregator and the pending stack as
\* they were
EmptyInputLeavesAggregator ==
  [][(CallReuse /\ EndsBeforeBlank(input'))
       => occurrences' = occurrences /\ parser' = parser]_vars

\* a call in concurrent mode on a header with no blank line, on a Folder
\* whose call before failed and left counts in the aggregator
EmptyInputOkWitness ==
  /\ is_concurrent
  /\ input = <<LFrame>>
  /\ prev_result \in {"utf8", "truncated"}
  /\ occurrences # EmptyOccurrences
  /\ pc = "idle"
  /\ result = "ok"
  /\ written = {}

\* the adds of the complete traces in lines, in order: the key of the frames
\* read since the count line before (or the start of lines), and the count
TraceAdds(lines) ==
  LET ts == TracesIn(lines, <<>>)
  IN  [i \in 1..Len(ts) |-> <<RootFirst(ts[i].frames), ts[i].count>>]

\* what is parsed as one stream in the current call: the body with one
\* thread, each chunk sent with more
Units ==
  IF is_concurrent THEN [i \in 1..Len(sent) |-> sent[i].chunk]
  ELSE IF HasBody(input) THEN <<Body(input)>> ELSE <<>>

RECURSIVE AddsOfUnits(_)
AddsOfUnits(units) ==
  IF units = <<>> THEN <<>>
  ELSE TraceAdds(Head(units)) \o AddsOfUnits(Tail(units))

\* how many times x is in the sequence s
CountIn(s, x) == Cardinality({i \in 1..Len(s) : s[i] = x})

\* C18: no partial trace reaches the aggregator. In a call on a new Folder,
\* in either mode, every add made so far is the add of a complete trace of
\* the body (one thread) or of a chunk sent (more threads): its key is the
\* join of the frames read since the count line before it, or since the
\* start of the chunk, and its count the value of its count line; no trace
\* is added more often than it was read, and frames that no count line
\* follows are in no add.
NoPartialTrace ==
  \A i \in 1..Len(added) :
    CountIn(added, added[i]) <= CountIn(AddsOfUnits(Units), added[i])

\* with one thread the adds are those of the traces of the body, in order
NoPartialTraceInOrder ==
  ~is_concurrent =>
    /\ Len(added) <= Len(AddsOfUnits(Units))
    /\ added = SubSeq(AddsOfUnits(Units), 1, Len(added))

\* the chunk "a", "1", "a" fails as truncated in its worker after the add of
\* its complete trace, and of that only
NoPartialTraceWitness ==
  /\ is_concurrent
  /\ Finished
  /\ result = "truncated"
  /\ Len(sent) = 1
  /\ sent[1].chunk = <<LFrame, LCount, LFrame>>
  /\ added = << <<LFrame, 1>> >>

\* every line after the preamble decodes: a blank, a frame or a count line
DecodableBody(inp) ==
  HasBody(inp) /\ \A i \in 1..Len(Body(inp)) : LineKind(Body(inp)[i]) # "bad"

\* C19: no panic on malformed but decodable data. Whatever blank, frame and
\* count lines follow the preamble, no thread of the call panics: not the
\* caller's with one thread, and no worker.
NoPanic == DecodableBody(input) => (result # "panic" /\ Panicked = {})

\* a count line is read with no frame pending in some stream of the call
CountWithoutFrames ==
  \E u \in 1..Len(Units) :
    \E i \in 1..Len(TracesIn(Units[u], <<>>)) :
      TracesIn(Units[u], <<>>)[i].frames = <<>>

\* the only panic is that of on_stack_end on an empty stack
NoPanicUnlessNoFrames ==
  (result = "panic" \/ Panicked # {}) => CountWithoutFrames

\* the sum of the counts stored in the table occ
RECURSIVE SumOfCounts(_)
SumOfCounts(occ) ==
  IF DOMAIN occ = {} THEN 0
  ELSE LET k == CHOOSE x \in DOMAIN occ : TRUE
       IN  occ[k] + SumOfCounts([x \in DOMAIN occ \ {k} |-> occ[x]])

\* the values of the count lines among lines, in order
RECURSIVE CountsOf(_)
CountsOf(lines) ==
  IF lines = <<>> THEN <<>>
  ELSE IF LineKind(Head(lines)) = "count"
  THEN <<ParseUsize(Trim(Head(lines) \o <<NL>>)).val>> \o CountsOf(Tail(lines))
  ELSE CountsOf(Tail(lines))

RECURSIVE SumSeq(_)
SumSeq(ns) == IF ns = <<>> THEN 0 ELSE Head(ns) + SumSeq(Tail(ns))

\* the count lines read so far in the call that is read line by line
CountsRead == IF input = <<>> THEN <<>> ELSE CountsOf(Tail(input))

\* C20: count conservation. At every point of a call before the drain there
\* is one add for each count line read so far, in order and with its count,
\* and the counts in the occurrence table sum to the sum of those lines;
\* after a call that returned Ok the line written for each stack has the
\* sum of the counts of that stack's count lines.
CountConservation ==
  /\ ~drained =>
       /\ Len(added) = Len(CountsRead)
       /\ \A i \in 1..Len(added) : added[i][2] = CountsRead[i]
       /\ SumOfCounts(occurrences) = SumSeq(CountsRead)
  /\ (Finished /\ result = "ok") =>
       /\ Len(added) = Len(CountsRead)
       /\ written =
            {<<added[i][1],
               SumSeq([j \in 1..Len(added) |->
                 IF added[j][1] = added[i][1] THEN CountsRead[j] ELSE 0])>>
             : i \in 1..Len(added)}

\* CountConservation, in the calls that do not panic
CountConservationUnlessPanic == result # "panic" => CountConservation

\* how many lines of the chunk are count lines: digits that parse as usize
CountLinesIn(chunk) ==
  Cardinality({i \in 1..Len(chunk) : LineKind(chunk[i]) = "count"})

\* how many lines of the chunk the byte scanner takes for the end of a stack
ScannedEndsIn(chunk) ==
  Cardinality({i \in 1..Len(chunk) : is_end_of_stack(chunk[i] \o <<NL>>)})

\* C21: chunk size. Every chunk sent before the end of the stream holds
\* exactly nstacks_per_job count lines, and the chunk sent at the end of the
\* stream holds fewer than that.
ChunkSize ==
  \A i \in 1..Len(sent) :
    IF sent[i].last THEN CountLinesIn(sent[i].chunk) < nstacks_per_job
    ELSE CountLinesIn(sent[i].chunk) = nstacks_per_job

\* ChunkSize in the lines the scanner counts, which are the count lines and
\* the blank lines: a chunk before the end of the stream also ends with one
ChunkSizeScanned ==
  \A i \in 1..Len(sent) :
    IF sent[i].last THEN ScannedEndsIn(sent[i].chunk) < nstacks_per_job
    ELSE /\ ScannedEndsIn(sent[i].chunk) = nstacks_per_job
         /\ is_end_of_stack(sent[i].chunk[Len(sent[i].chunk)] \o <<NL>>)

\* ChunkSize when no line after the preamble is blank
ChunkSizeUnlessBlank ==
  (HasBody(input) /\ \A i \in 1..Len(Body(input)) :
                       LineKind(Body(input)[i]) # "blank") => ChunkSize

\* the chunks the workers took from the queue, in the order they took them
ChunksReceived == SelectSeq(received, LAMBDA r : r.msg.some)

\* the None messages the worker w took from the queue
NonesReceived(w) ==
  {i \in 1..Len(received) : received[i].w = w /\ ~received[i].msg.some}

\* a concurrent call has ended and no worker failed or panicked
EndedWithoutFailure ==
  /\ is_concurrent
  /\ Finished
  /\ workers # << >>
  /\ Failed = {}
  /\ Panicked = {}

\* C22: exactly-once chunk processing. The i-th chunk taken from the work
\* queue is the i-th chunk sent, so no chunk is taken twice; no chunk is
\* taken after a None; no worker takes more than one None. When a concurrent
\* call ends with no worker failed, every chunk sent (the last one too) was
\* taken by a worker, the queue is empty, each worker took exactly one None,
\* and the adds made are those of the traces of the chunks sent, each once.
ExactlyOnce ==
  /\ Len(ChunksReceived) <= Len(sent)
  /\ \A i \in 1..Len(ChunksReceived) :
       ChunksReceived[i].msg.data = sent[i].chunk
  /\ \A i, j \in 1..Len(received) :
       (i < j /\ ~received[i].msg.some) => ~received[j].msg.some
  /\ \A w \in DOMAIN workers : Cardinality(NonesReceived(w)) <= 1
  /\ EndedWithoutFailure =>
       /\ Len(ChunksReceived) = Len(sent)
       /\ tx_input = <<>>
       /\ \A w \in DOMAIN workers : Cardinality(NonesReceived(w)) = 1
       /\ Len(added) = Len(AddsOfUnits(Units))
       /\ \A i \in 1..Len(added) :
            CountIn(added, added[i]) = CountIn(AddsOfUnits(Units), added[i])

\* "a", "1", "a", "1" in chunks of one trace: three chunks sent, the last one
\* empty, and both workers took a chunk
ExactlyOnceWitness ==
  /\ EndedWithoutFailure
  /\ result = "ok"
  /\ Len(sent) = 3
  /\ Len(added) = 2
  /\ \A w \in DOMAIN workers :
       \E i \in 1..Len(received) : received[i].w = w /\ received[i].msg.some

\* the workers that returned an Err from a chunk and are past their try_sends
\* on the stop channel
Signalled ==
  {w \in DOMAIN workers :
     workers[w].err # "none" /\ workers[w].pc \in {"report", "done"}}

\* the workers that are waiting for a message or parsing a chunk
Running == {w \in DOMAIN workers : workers[w].pc \in {"recv", "work"}}

\* C23: cancellation reaches every peer. Once a worker that failed on a
\* chunk has made its try_sends, the stop channel holds at least one signal
\* for each worker still running, however the try_sends of several failed
\* workers interleave; every worker then exits; and once all workers have
\* exited, the orchestrator's next send puts nothing in the queue and it
\* reads no more input.
CancellationReachesPeers ==
  /\ [](Signalled # {} => stop >= Cardinality(Running))
  /\ (Signalled # {}) ~> (AllExited /\ Running = {})
  /\ [][(workers # << >> /\ AllExited /\ pc \in {"send", "send_last"})
         => (tx_input' = tx_input /\ sent' = sent /\ rest' = rest
             /\ pc' = "send_none")]_vars
  /\ [][(workers # << >> /\ AllExited /\ pc \in {"send_none", "wait", "join"})
         => rest' = rest]_vars

\* two workers have failed, each on its chunk, and the third, which was
\* waiting, has taken a stop signal and returned
CancellationReachesPeersWitness ==
  /\ Cardinality(Signalled) = 2
  /\ AllExited
  /\ Panicked = {}
  /\ \E w \in DOMAIN workers :
       /\ workers[w].err = "none"
       /\ workers[w].pc = "done"
       /\ \A i \in 1..Len(received) : received[i].w # w

\* all workers have exited after a failure while the orchestrator still has
\* a chunk to send
SendAfterExitWitness ==
  /\ Signalled # {}
  /\ AllExited
  /\ pc = "send"

\* the worker w found the work queue closed: its input.unwrap() panicked
FoundClosed(w) == workers[w].err = "RecvError"

\* C24: a worker never finds the work queue closed. The sending side of the
\* work queue is not dropped while a worker waits to receive on the empty
\* queue with no stop signal to take, and no worker's unwrap of the received
\* message fails: a worker that has left its loop took a None or a stop
\* signal, or failed on a chunk.
WorkQueueNeverClosed ==
  /\ \A w \in DOMAIN workers : ~FoundClosed(w)
  /\ pc = "closed" =>
       \A w \in DOMAIN workers :
         ~(workers[w].pc = "recv" /\ tx_input = <<>> /\ stop = 0)

\* WorkQueueNeverClosed in the calls in which no read of the reader fails
WorkQueueNeverClosedUnlessReadError ==
  (pc # "closed" /\ maybe_error # "io") => WorkQueueNeverClosed

====
